---------------------------- MODULE Spec2Model ----------------------------
(* A model of hanzibro's dictionary engine and editor text helpers.        *)
(*   DictionaryService   (dictionary.service.ts): loadData,                *)
(*                       searchHanziByPinyin, searchDictionary             *)
(*   editor/domain/hanzi.ts: normalizePinyin, getPinyinAtCursor,           *)
(*                       insertHanziAtCursor                               *)
(* A JavaScript string is a sequence of UTF-16 code units (naturals).      *)
EXTENDS Integers, Sequences, FiniteSets, TLC

VARIABLES
    cache,           \* DictionaryService.cache: <<>> (null) or <<table>>
    loadingPromise,  \* DictionaryService.loadingPromise: 0 (null) or the load it belongs to
    loads,           \* the invocations of the async body of loadData, in start order
    callers,         \* the pending / finished search calls
    node,            \* the DOM node the editor helpers work on
    lastCall         \* the last call of a synchronous function and what it returned

vars == <<cache, loadingPromise, loads, callers, node, lastCall>>

(***************************************************************************)
(* Bounds of the model.                                                    *)
(***************************************************************************)
MaxTextLen == 3      \* longest text handed to normalizePinyin
MaxBufLen == 2       \* longest enumerated text-node content
MaxEdits == 1        \* splices applied to one node
NumCallers == 2      \* concurrent search calls
MaxLoads == 2        \* sets of source fetches started in one run
NumVariants == 2     \* alternative payloads of one HSK level file

(***************************************************************************)
(* JavaScript string primitives.                                           *)
(***************************************************************************)
Null == <<>>
Some(x) == <<x>>

RECURSIVE Flatten(_)
Flatten(ss) == IF ss = <<>> THEN <<>> ELSE Head(ss) \o Flatten(Tail(ss))

\* String.prototype.toLowerCase on one code unit (the letters the model uses).
LowerChar(c) ==
    CASE c \in 65..90 -> c + 32          \* A-Z
      [] c = 220 -> 252                  \* U+00DC -> U+00FC (u diaeresis)
      [] c = 272 -> 273                  \* U+0110 -> U+0111 (d stroke)
      [] c = 469 -> 470                  \* U+01D5 -> U+01D6
      [] c = 471 -> 472                  \* U+01D7 -> U+01D8
      [] c = 473 -> 474                  \* U+01D9 -> U+01DA
      [] c = 475 -> 476                  \* U+01DB -> U+01DC
      [] OTHER -> c

toLowerCase(s) == [i \in 1..Len(s) |-> LowerChar(s[i])]

\* Canonical decomposition of one code unit: String.prototype.normalize("NFD").
\* Decomposition is full: U+01DC is U+00FC + U+0300 and U+00FC is u + U+0308.
Decompose(c) ==
    CASE c = 252 -> <<117, 776>>         \* u diaeresis
      [] c = 220 -> <<85, 776>>          \* U diaeresis
      [] c = 470 -> <<117, 776, 772>>    \* u diaeresis macron
      [] c = 472 -> <<117, 776, 769>>    \* u diaeresis acute
      [] c = 474 -> <<117, 776, 780>>    \* u diaeresis caron
      [] c = 476 -> <<117, 776, 768>>    \* u diaeresis grave
      [] c = 469 -> <<85, 776, 772>>
      [] c = 471 -> <<85, 776, 769>>
      [] c = 473 -> <<85, 776, 780>>
      [] c = 475 -> <<85, 776, 768>>
      [] c = 257 -> <<97, 772>>          \* a macron
      [] c = 225 -> <<97, 769>>          \* a acute
      [] c = 462 -> <<97, 780>>          \* a caron
      [] c = 224 -> <<97, 768>>          \* a grave
      [] c = 275 -> <<101, 772>>         \* e macron
      [] c = 233 -> <<101, 769>>         \* e acute
      [] c = 283 -> <<101, 780>>         \* e caron
      [] c = 232 -> <<101, 768>>         \* e grave
      [] c = 299 -> <<105, 772>>         \* i macron
      [] c = 237 -> <<105, 769>>         \* i acute
      [] c = 464 -> <<105, 780>>         \* i caron
      [] c = 236 -> <<105, 768>>         \* i grave
      [] c = 333 -> <<111, 772>>         \* o macron
      [] c = 243 -> <<111, 769>>         \* o acute
      [] c = 466 -> <<111, 780>>         \* o caron
      [] c = 242 -> <<111, 768>>         \* o grave
      [] c = 363 -> <<117, 772>>         \* u macron
      [] c = 250 -> <<117, 769>>         \* u acute
      [] c = 468 -> <<117, 780>>         \* u caron
      [] c = 249 -> <<117, 768>>         \* u grave
      [] c = 226 -> <<97, 770>>          \* a circumflex
      [] c = 244 -> <<111, 770>>         \* o circumflex
      [] c = 7889 -> <<111, 770, 769>>   \* o circumflex acute
      [] c = 7841 -> <<97, 803>>         \* a dot below
      [] c = 7919 -> <<117, 795, 771>>   \* u horn tilde
      [] c = 259 -> <<97, 774>>          \* a breve
      [] c = 432 -> <<117, 795>>         \* u horn
      [] c = 7875 -> <<101, 770, 777>>   \* e circumflex hook above
      [] c = 7903 -> <<111, 795, 777>>   \* o horn hook above
      [] c = 7907 -> <<111, 795, 803>>   \* o horn dot below
      [] c = 7909 -> <<117, 803>>        \* u dot below
      [] c = 324 -> <<110, 769>>         \* n acute
      [] OTHER -> <<c>>

NFD(s) == Flatten([i \in 1..Len(s) |-> Decompose(s[i])])

\* .replace(/[\u0300-\u036f]/g, "")
IsCombiningMark(c) == c \in 768..879
StripCombining(s) == SelectSeq(s, LAMBDA c : ~IsCombiningMark(c))

\* .replace(/<from>/g, "<to>") for a one-character pattern
ReplaceChar(s, from, to) == [i \in 1..Len(s) |-> IF s[i] = from THEN to ELSE s[i]]

\* what \s and String.prototype.trim treat as white space
Whitespace == {9, 10, 11, 12, 13, 32, 160}
IsWhitespace(c) == c \in Whitespace

RECURSIVE TrimStart(_)
TrimStart(s) ==
    IF s # <<>> /\ IsWhitespace(Head(s)) THEN TrimStart(Tail(s)) ELSE s

RECURSIVE TrimEnd(_)
TrimEnd(s) ==
    IF s # <<>> /\ IsWhitespace(s[Len(s)])
    THEN TrimEnd(SubSeq(s, 1, Len(s) - 1)) ELSE s

Trim(s) == TrimEnd(TrimStart(s))

\* s.startsWith(p)
StartsWith(s, p) == /\ Len(p) <= Len(s)
                    /\ SubSeq(s, 1, Len(p)) = p

\* s.includes(p)
Includes(s, p) ==
    \E i \in 0..(Len(s) - Len(p)) : SubSeq(s, i + 1, i + Len(p)) = p

\* array.includes(x)
ArrayIncludes(a, x) == \E i \in 1..Len(a) : a[i] = x

\* s.split(/[<seps>]+/): the pieces between maximal runs of separators; a run
\* at the start or the end of s leaves an empty piece there.
RECURSIVE SplitFrom(_, _, _, _)
SplitFrom(s, seps, i, cur) ==
    IF i > Len(s) THEN <<cur>>
    ELSE IF s[i] \in seps
         THEN IF i > 1 /\ s[i - 1] \in seps
              THEN SplitFrom(s, seps, i + 1, cur)
              ELSE <<cur>> \o SplitFrom(s, seps, i + 1, <<>>)
         ELSE SplitFrom(s, seps, i + 1, Append(cur, s[i]))

Split(s, seps) == SplitFrom(s, seps, 1, <<>>)

\* String.prototype.substring(a, b): both ends clamped to 0..length, swapped
\* when a > b.
Clamp(x, n) == IF x < 0 THEN 0 ELSE IF x > n THEN n ELSE x
Substring(s, a, b) ==
    LET ca == Clamp(a, Len(s))
        cb == Clamp(b, Len(s))
        lo == IF ca <= cb THEN ca ELSE cb
        hi == IF ca <= cb THEN cb ELSE ca
    IN SubSeq(s, lo + 1, hi)

(***************************************************************************)
(* Text normalizers.                                                       *)
(***************************************************************************)
\* hanzi.ts: normalizePinyin
normalizePinyin(text) ==
    Trim(ReplaceChar(ReplaceChar(ReplaceChar(ReplaceChar(ReplaceChar(
         StripCombining(NFD(toLowerCase(text))),
         252, 118), 470, 118), 472, 118), 474, 118), 476, 118))

\* DictionaryService.normalizePinyin (a private copy of the same chain)
ServiceNormalizePinyin(text) ==
    Trim(ReplaceChar(ReplaceChar(ReplaceChar(ReplaceChar(ReplaceChar(
         StripCombining(NFD(toLowerCase(text))),
         252, 118), 470, 118), 472, 118), 474, 118), 476, 118))

\* DictionaryService.normalizeText; s is <<>> for undefined, <<str>> otherwise
normalizeText(s) ==
    IF s = Null \/ s[1] = <<>> THEN <<>>
    ELSE Trim(toLowerCase(ReplaceChar(ReplaceChar(
              StripCombining(NFD(s[1])), 273, 100), 272, 100)))

(***************************************************************************)
(* The six HSK level files: sample payloads.                               *)
(***************************************************************************)
Levels == 1..6

LevelBase(level) ==
    CASE level = 1 ->    \* ni3; hao3; ni3 hao3
        <<
          [hanzi |-> <<20320>>, pinyin |-> <<110, 464>>,
           meaning |-> <<98, 7841, 110>>,
           example |-> Some([hanzi |-> <<20320, 22909>>,
                             pinyin |-> <<110, 464, 32, 104, 462, 111>>,
                             meaning |-> <<120, 105, 110, 32, 99, 104, 224, 111>>])],
          [hanzi |-> <<22909>>, pinyin |-> <<104, 462, 111>>,
           meaning |-> <<116, 7889, 116>>,
           example |-> Null],
          [hanzi |-> <<20320, 22909>>, pinyin |-> <<110, 464, 32, 104, 462, 111>>,
           meaning |-> <<120, 105, 110, 32, 99, 104, 224, 111>>,
           example |-> Null]
        >>
      [] level = 2 ->    \* nin2; nan2 hai2; nv3
        <<
          [hanzi |-> <<24744>>, pinyin |-> <<110, 237, 110>>,
           meaning |-> <<110, 103, 224, 105>>,
           example |-> Null],
          [hanzi |-> <<30007, 23401>>, pinyin |-> <<110, 225, 110, 32, 104, 225, 105>>,
           meaning |-> <<98, 233, 32, 116, 114, 97, 105>>,
           example |-> Null],
          [hanzi |-> <<22899>>, pinyin |-> <<110, 474>>,
           meaning |-> <<110, 7919>>,
           example |-> Null]
        >>
      [] level = 3 ->    \* ni3 men; nian2; niu2 nai3
        <<
          [hanzi |-> <<20320, 20204>>, pinyin |-> <<110, 464, 32, 109, 101, 110>>,
           meaning |-> <<99, 225, 99, 32, 98, 7841, 110>>,
           example |-> Null],
          [hanzi |-> <<24180>>, pinyin |-> <<110, 105, 225, 110>>,
           meaning |-> <<110, 259, 109>>,
           example |-> Some([hanzi |-> <<20170, 24180>>,
                             pinyin |-> <<106, 299, 110, 32, 110, 105, 225, 110>>,
                             meaning |-> <<110, 259, 109, 32, 110, 97, 121>>])],
          [hanzi |-> <<29275, 22902>>, pinyin |-> <<110, 105, 250, 32, 110, 462, 105>>,
           meaning |-> <<115, 7919, 97, 32, 98, 242>>,
           example |-> Null]
        >>
      [] level = 4 ->    \* na4; na3 li3; nan2
        <<
          [hanzi |-> <<37027>>, pinyin |-> <<110, 224>>,
           meaning |-> <<107, 105, 97>>,
           example |-> Null],
          [hanzi |-> <<21738, 37324>>, pinyin |-> <<110, 462, 32, 108, 464>>,
           meaning |-> <<7903, 32, 273, 226, 117>>,
           example |-> Null],
          [hanzi |-> <<21335>>, pinyin |-> <<110, 225, 110>>,
           meaning |-> <<110, 97, 109>>,
           example |-> Null]
        >>
      [] level = 5 ->    \* lv4; nan2; n2 (U+55EF)
        <<
          [hanzi |-> <<32511>>, pinyin |-> <<108, 476>>,
           meaning |-> <<120, 97, 110, 104>>,
           example |-> Null],
          [hanzi |-> <<38590>>, pinyin |-> <<110, 225, 110>>,
           meaning |-> <<107, 104, 243>>,
           example |-> Null],
          [hanzi |-> <<21999>>, pinyin |-> <<324>>,
           meaning |-> <<118, 226, 110, 103>>,
           example |-> Null]
        >>
      [] OTHER ->          \* hao3 again; hao4, whose gloss quotes the word; nv3 ren2
        <<
          [hanzi |-> <<22909>>, pinyin |-> <<104, 462, 111>>,
           meaning |-> <<116, 7889, 116, 44, 32, 273, 432, 7907, 99>>,
           example |-> Null],
          [hanzi |-> <<21495>>, pinyin |-> <<104, 224, 111>>,
           meaning |-> <<115, 7889, 32, 40, 21495, 41>>,
           example |-> Null],
          [hanzi |-> <<22899, 20154>>, pinyin |-> <<110, 474, 32, 114, 233, 110>>,
           meaning |-> <<112, 104, 7909, 32, 110, 7919>>,
           example |-> Null]
        >>

\* The payload a level file may hold: the whole list, no entries, its first
\* entry only, or the list without its first entry.
LevelVariant(level, v) ==
    CASE v = 1 -> LevelBase(level)
      [] v = 2 -> <<>>
      [] v = 3 -> SubSeq(LevelBase(level), 1, 1)
      [] OTHER -> Tail(LevelBase(level))

HanziQueries ==
    { <<110, 105, 104, 97, 111>>,     \* "nihao"
      <<110, 105>>,                   \* "ni"
      <<110>>,                        \* "n"
      <<110, 104>>,                   \* "nh"
      <<110, 97>>,                    \* "na"
      <<110, 97, 110>>,               \* "nan"
      <<104, 97, 111>>,               \* "hao"
      <<108, 118>>,                   \* "lv"
      <<108, 476>>,                   \* "l" U+01DC
      <<110, 474>>,                   \* "n" U+01DA
      <<110, 118>>,                   \* "nv"
      <<110, 114>>,                   \* "nr"
      <<32, 78, 73, 32>>,             \* " NI "
      <<32>>,                         \* " "
      <<>> }                          \* ""

DictQueries ==
    { <<20320>>,                      \* U+4F60 (ni3)
      <<22909>>,                      \* U+597D (hao3)
      <<21495>>,                      \* U+53F7 (hao4)
      <<20320, 22909>>,               \* U+4F60 U+597D
      <<116, 7889, 116>>,             \* "t" U+1ED1 "t"
      <<116, 111, 116>>,              \* "tot"
      <<104, 97, 111>>,               \* "hao"
      <<110, 464>>,                   \* "n" U+01D0
      <<120, 105, 110>>,              \* "xin"
      <<115>>,                        \* "s"
      <<40>>,                         \* "("
      <<273, 432, 7907, 99>>,         \* U+0111 U+01B0 U+1EE3 "c"
      <<>> }                          \* ""

(***************************************************************************)
(* DictionaryService: the table.  A table is the sequence of its entries   *)
(* in key insertion order (the order Object.values / Object.entries        *)
(* enumerate string keys in); every word occurs once.                      *)
(***************************************************************************)
\* lines 51-61: the DictionaryResult built from one HSKEntry
MakeEntry(entry) ==
    [word |-> entry.hanzi,
     pinyin |-> entry.pinyin,
     meaning |-> <<entry.meaning>>,
     example |-> IF entry.example # Null
                 THEN Some(entry.example[1].hanzi \o <<32, 40>>
                           \o entry.example[1].pinyin \o <<41, 32, 45, 32>>
                           \o entry.example[1].meaning)
                 ELSE Null]

\* dictionary[key] = value: an existing key keeps its place, a new one is appended
PutEntry(dictionary, value) ==
    IF \E i \in 1..Len(dictionary) : dictionary[i].word = value.word
    THEN [i \in 1..Len(dictionary) |->
            IF dictionary[i].word = value.word THEN value ELSE dictionary[i]]
    ELSE Append(dictionary, value)

RECURSIVE MergeEntries(_, _)
MergeEntries(dictionary, entries) ==
    IF entries = <<>> THEN dictionary
    ELSE MergeEntries(PutEntry(dictionary, MakeEntry(Head(entries))), Tail(entries))

RECURSIVE MergeResults(_, _)
MergeResults(dictionary, results) ==
    IF results = <<>> THEN dictionary
    ELSE MergeResults(MergeEntries(dictionary, Head(results)), Tail(results))

\* lines 40-63: results is the array Promise.all resolved with
BuildDictionary(results) == MergeResults(<<>>, results)

(***************************************************************************)
(* DictionaryService.searchHanziByPinyin                                    *)
(***************************************************************************)
SuggestionLimit == 10
DictionaryLimit == 50

Take(s, n) == SubSeq(s, 1, IF Len(s) < n THEN Len(s) ELSE n)

\* the comparator with its operands exchanged
sortBySyllablesDescending(a, b) == b.syllableCount - a.syllableCount

\* lines 163-165
sortBySyllables(a, b) == a.syllableCount - b.syllableCount

\* lines 219-222
byScoreThenLength(a, b) ==
    IF b.score # a.score THEN b.score - a.score
    ELSE Len(a.word) - Len(b.word)

\* the comparator a sort call is given
Compare(cmp, a, b) ==
    IF cmp = "sortBySyllables" THEN sortBySyllables(a, b)
    ELSE byScoreThenLength(a, b)

\* Array.prototype.sort(cmp): stable; x goes before the first element that
\* compares greater than it.  cmp names the comparator (see Compare).
RECURSIVE InsertSorted(_, _, _)
InsertSorted(sorted, x, cmp) ==
    IF sorted = <<>> THEN <<x>>
    ELSE IF Compare(cmp, Head(sorted), x) > 0 THEN <<x>> \o sorted
         ELSE <<Head(sorted)>> \o InsertSorted(Tail(sorted), x, cmp)

RECURSIVE SortFrom(_, _, _)
SortFrom(done, rest, cmp) ==
    IF rest = <<>> THEN done
    ELSE SortFrom(InsertSorted(done, Head(rest), cmp), Tail(rest), cmp)

Sort(a, cmp) == SortFrom(<<>>, a, cmp)

\* normalized.split(/\s+/).filter(s => s.length > 0)
Syllables(normalized) ==
    SelectSeq(Split(normalized, Whitespace), LAMBDA s : Len(s) > 0)

isShorthandQuery(query) ==
    /\ Len(query) >= 2
    /\ \A i \in 1..Len(query) : query[i] \in 97..122

matchesShorthand(pinyin, shorthand) ==
    LET normalized == ServiceNormalizePinyin(pinyin)
        syllables == Syllables(normalized)
        firstLetters == [i \in 1..Len(syllables) |-> syllables[i][1]]
    IN StartsWith(firstLetters, shorthand)

\* the loop body with the partial test placed before the exact test
ClassifyPartialFirst(value, normalizedQuery, isShorthand) ==
    LET normalizedPinyin == ServiceNormalizePinyin(value.pinyin)
        syllables == Syllables(normalizedPinyin)
    IN IF \/ StartsWith(normalizedPinyin, normalizedQuery)
          \/ \E i \in 1..Len(syllables) : StartsWith(syllables[i], normalizedQuery)
       THEN "partial"
       ELSE IF \/ normalizedPinyin = normalizedQuery
               \/ ArrayIncludes(syllables, normalizedQuery)
       THEN "exact"
       ELSE IF isShorthand /\ matchesShorthand(value.pinyin, normalizedQuery)
       THEN "shorthand"
       ELSE "none"

\* lines 127-160: the bucket one table entry goes to ("none": dropped)
Classify(value, normalizedQuery, isShorthand) ==
    LET normalizedPinyin == ServiceNormalizePinyin(value.pinyin)
        syllables == Syllables(normalizedPinyin)
    IN IF \/ normalizedPinyin = normalizedQuery
          \/ ArrayIncludes(syllables, normalizedQuery)
       THEN "exact"
       ELSE IF \/ StartsWith(normalizedPinyin, normalizedQuery)
               \/ \E i \in 1..Len(syllables) : StartsWith(syllables[i], normalizedQuery)
       THEN "partial"
       ELSE IF isShorthand /\ matchesShorthand(value.pinyin, normalizedQuery)
       THEN "shorthand"
       ELSE "none"

\* the record pushed to a bucket (isShorthand is set for shorthand matches only)
Stamp(value, matchType) ==
    [word |-> value.word, pinyin |-> value.pinyin, meaning |-> value.meaning,
     example |-> value.example,
     matchType |-> matchType,
     isShorthand |-> (matchType = "shorthand"),
     syllableCount |-> Len(Syllables(ServiceNormalizePinyin(value.pinyin)))]

Bucket(table, normalizedQuery, isShorthand, matchType) ==
    LET hit == SelectSeq(table, LAMBDA value :
                   Classify(value, normalizedQuery, isShorthand) = matchType)
    IN [i \in 1..Len(hit) |-> Stamp(hit[i], matchType)]

\* lines 167-172
RankBuckets(exactMatches, partialMatches, shorthandMatches) ==
    Take(Sort(exactMatches, "sortBySyllables")
         \o Sort(partialMatches, "sortBySyllables")
         \o Sort(shorthandMatches, "sortBySyllables"), SuggestionLimit)

\* lines 118-172: the part of searchHanziByPinyin that runs with a loaded table
searchHanziByPinyin(table, query) ==
    LET normalizedQuery == ServiceNormalizePinyin(query)
        isShorthand == isShorthandQuery(normalizedQuery)
    IN IF normalizedQuery = <<>> THEN <<>>
       ELSE RankBuckets(Bucket(table, normalizedQuery, isShorthand, "exact"),
                        Bucket(table, normalizedQuery, isShorthand, "partial"),
                        Bucket(table, normalizedQuery, isShorthand, "shorthand"))

(***************************************************************************)
(* DictionaryService.searchDictionary                                      *)
(***************************************************************************)
\* [\s,.;:()!]
WordSeparators == Whitespace \cup {44, 46, 59, 58, 40, 41, 33}

RECURSIVE Join(_, _)
Join(a, sep) ==
    IF a = <<>> THEN <<>>
    ELSE IF Len(a) = 1 THEN a[1]
    ELSE a[1] \o sep \o Join(Tail(a), sep)

\* lines 185-211: the score of one entry; every statement of the loop body in
\* its order, a later assignment overwriting an earlier one.
Score(key, value, query, q, nq) ==
    LET pinyin == toLowerCase(value.pinyin)
        meaningsCombined == toLowerCase(Join(value.meaning, <<32>>))
        example == toLowerCase(IF value.example = Null THEN <<>> ELSE value.example[1])
        trad == <<>>     \* value.traditional is never set by loadData
        s0 == IF key = query THEN 1000
              ELSE IF Includes(key, query) \/ Includes(trad, query) THEN 950
              ELSE -1
        normMeanings == normalizeText(Some(meaningsCombined))
        words == Split(meaningsCombined, WordSeparators)
        normWords == Split(normMeanings, WordSeparators)
        s1 == IF meaningsCombined = q \/ normMeanings = nq THEN 900
              ELSE IF Includes(meaningsCombined, q) \/ Includes(normMeanings, nq)
                   THEN IF ArrayIncludes(words, q) \/ ArrayIncludes(normWords, nq)
                        THEN 850 ELSE 800
              ELSE s0
        s2 == IF s1 < 0
              THEN IF pinyin = q \/ normalizeText(Some(pinyin)) = nq THEN 750
                   ELSE IF Includes(pinyin, q) \/ Includes(normalizeText(Some(pinyin)), nq)
                        THEN 700
                   ELSE s1
              ELSE s1
        s3 == IF s2 < 0
              THEN IF Includes(example, q) \/ Includes(normalizeText(Some(example)), nq)
                   THEN 600 ELSE s2
              ELSE s2
    IN s3

Scored(value, score) ==
    [word |-> value.word, pinyin |-> value.pinyin, meaning |-> value.meaning,
     example |-> value.example, score |-> score]

\* lines 180-224: the part of searchDictionary that runs with a loaded table
searchDictionary(table, query) ==
    LET q == Trim(toLowerCase(query))
        nq == normalizeText(Some(q))
        all == [i \in 1..Len(table) |->
                  Scored(table[i], Score(table[i].word, table[i], query, q, nq))]
        results == SelectSeq(all, LAMBDA r : r.score > 0)
    IN Take(Sort(results, "byScoreThenLength"), DictionaryLimit)

(***************************************************************************)
(* DictionaryService.loadData and the two search entry points as           *)
(* processes of the event loop.  A task (a network completion) runs only   *)
(* when no microtask (the continuation of an await) is pending.            *)
(***************************************************************************)
Callers == 1..NumCallers

IdleCaller ==
    [pc |-> "idle", fn |-> "none", query |-> <<>>, awaiting |-> 0, result |-> <<>>]

NoBody == [wellFormed |-> TRUE, entries |-> <<>>]
PendingFetches == [level \in Levels |-> [st |-> "pending", body |-> NoBody]]

\* what the fetch of one level file may resolve with: JSON of the expected
\* shape, or (level 6) JSON whose entries lack the fields line 51 reads
Bodies(level) ==
    {[wellFormed |-> TRUE, entries |-> LevelVariant(level, v)] :
        v \in IF level = 1 THEN {1, 3} ELSE {3}}
    \cup IF level = 6 THEN {[wellFormed |-> FALSE, entries |-> <<>>]} ELSE {}

\* the search calls the model issues
Requests ==
    { [fn |-> "searchHanziByPinyin", query |-> <<110, 105>>],       \* "ni"
      [fn |-> "searchDictionary", query |-> <<22909>>] }            \* U+597D

Settled(k) == loads[k].stage \in {"loaded", "failed"}

\* loadData without the check of line 36: every call with no table fetches
LoadDataBranchNoJoin(c, lp) ==
    IF c # Null THEN "cached" ELSE "start"

\* loadData without lines 35-36: every call fetches
LoadDataBranchAlwaysStart(c, lp) == "start"

\* lines 35-38: which way loadData goes
LoadDataBranch(c, lp) ==
    IF c # Null THEN "cached"
    ELSE IF lp # 0 THEN "join"
    ELSE "start"

\* a catch block that leaves the promise in place
CatchKeepsPromise(lp) == lp

\* line 68
CatchReset(lp) == 0

\* lines 116-172 / 178-224: what a search call returns once loadData is awaited
SearchResult(fn, query) ==
    IF cache = Null THEN <<>>
    ELSE IF fn = "searchHanziByPinyin" THEN searchHanziByPinyin(cache[1], query)
    ELSE searchDictionary(cache[1], query)

Resumable(c) ==
    /\ callers[c].pc = "awaiting"
    /\ IF callers[c].awaiting = 0 THEN TRUE ELSE Settled(callers[c].awaiting)

MicrotaskPending ==
    \/ \E c \in Callers : Resumable(c)
    \/ \E k \in 1..Len(loads) : loads[k].stage \in {"fulfilled", "rejected"}

\* A search call up to its await: loadData runs to its first await, which
\* starts the six fetches (line 43) and stores the promise (line 38).
Call(c, req) ==
    LET branch == LoadDataBranch(cache, loadingPromise)
        started == Len(loads) + 1
    IN /\ callers[c].pc \in {"idle", "done"}
       /\ branch = "start" => Len(loads) < MaxLoads
       /\ loads' = IF branch = "start"
                   THEN Append(loads, [stage |-> "fetching", fetch |-> PendingFetches])
                   ELSE loads
       /\ loadingPromise' = IF branch = "start" THEN started ELSE loadingPromise
       /\ callers' = [callers EXCEPT ![c] =
              [pc |-> "awaiting", fn |-> req.fn, query |-> req.query,
               awaiting |-> CASE branch = "cached" -> 0
                              [] branch = "join" -> loadingPromise
                              [] OTHER -> started,
               result |-> <<>>]]
       /\ UNCHANGED <<cache, node, lastCall>>

\* fetch(...).then(res => res.json()) of one level file fulfils.  Promise.all
\* fulfils with the last of the six.
FetchFulfil(k, level, body) ==
    /\ ~MicrotaskPending
    /\ loads[k].stage = "fetching"
    /\ loads[k].fetch[level].st = "pending"
    /\ LET fetch == [loads[k].fetch EXCEPT ![level] = [st |-> "ok", body |-> body]]
       IN loads' = [loads EXCEPT ![k] =
              [stage |-> IF \A l \in Levels : fetch[l].st = "ok"
                         THEN "fulfilled" ELSE "fetching",
               fetch |-> fetch]]
    /\ UNCHANGED <<cache, loadingPromise, callers, node, lastCall>>

\* The fetch or the JSON parse of one level file fails: Promise.all rejects
\* at once, and what the other fetches do no longer matters to the load.
FetchReject(k, level) ==
    /\ ~MicrotaskPending
    /\ loads[k].stage = "fetching"
    /\ loads[k].fetch[level].st = "pending"
    /\ loads' = [loads EXCEPT ![k] = [stage |-> "rejected", fetch |-> PendingFetches]]
    /\ UNCHANGED <<cache, loadingPromise, callers, node, lastCall>>

\* lines 49-65: the body after the await, when no entry makes it throw
LoadSucceed(k) ==
    /\ loads[k].stage = "fulfilled"
    /\ \A l \in Levels : loads[k].fetch[l].body.wellFormed
    /\ cache' = Some(BuildDictionary([l \in Levels |-> loads[k].fetch[l].body.entries]))
    /\ loads' = [loads EXCEPT ![k] = [stage |-> "loaded", fetch |-> PendingFetches]]
    /\ UNCHANGED <<loadingPromise, callers, node, lastCall>>

\* lines 66-69: the catch block, entered by a rejection of the await or by an
\* exception of the merge
LoadFail(k) ==
    /\ \/ loads[k].stage = "rejected"
       \/ /\ loads[k].stage = "fulfilled"
          /\ \E l \in Levels : ~loads[k].fetch[l].body.wellFormed
    /\ loadingPromise' = CatchReset(loadingPromise)
    /\ loads' = [loads EXCEPT ![k] = [stage |-> "failed", fetch |-> PendingFetches]]
    /\ UNCHANGED <<cache, callers, node, lastCall>>

\* The rest of a search call, after its await.
Resume(c) ==
    /\ Resumable(c)
    /\ callers' = [callers EXCEPT ![c].pc = "done",
                                  ![c].result = SearchResult(callers[c].fn, callers[c].query)]
    /\ UNCHANGED <<cache, loadingPromise, loads, node, lastCall>>

NoNode == [nodeType |-> "DOCUMENT_NODE", textContent |-> Null, edits |-> 0]
NoCall == [fn |-> "none"]

Init ==
    /\ cache = Null
    /\ loadingPromise = 0
    /\ loads = <<>>
    /\ callers = [c \in Callers |-> IdleCaller]
    /\ node = NoNode
    /\ lastCall = NoCall

Next ==
    \/ \E c \in Callers, req \in Requests : Call(c, req)
    \/ \E k \in 1..Len(loads), level \in Levels :
          \E body \in Bodies(level) : FetchFulfil(k, level, body)
    \/ \E k \in 1..Len(loads), level \in Levels : FetchReject(k, level)
    \/ \E k \in 1..Len(loads) : LoadSucceed(k)
    \/ \E k \in 1..Len(loads) : LoadFail(k)
    \/ \E c \in Callers : Resume(c)

Spec == Init /\ [][Next]_vars

(***************************************************************************)
(* hanzi.ts: the cursor helpers.  A node is its nodeType and textContent   *)
(* (Null for a node that has none); edits counts the splices applied.      *)
(***************************************************************************)
\* the character class with a space in it
IsPinyinLetterOrSpace(c) == c \in 97..122 \/ c \in 65..90 \/ c \in {252, 220, 32}

\* [a-zA-Z\u00fc\u00dcvV] of line 35
IsPinyinLetter(c) == c \in 97..122 \/ c \in 65..90 \/ c \in {252, 220}

\* the match of /([a-zA-Z\u00fc\u00dcvV]+)$/ in s: its longest suffix of such letters
\* (<<>> when there is no match)
RECURSIVE TrailingRun(_)
TrailingRun(s) ==
    IF s # <<>> /\ IsPinyinLetter(s[Len(s)])
    THEN Append(TrailingRun(SubSeq(s, 1, Len(s) - 1)), s[Len(s)])
    ELSE <<>>

\* line 27 / line 55: node.nodeType !== Node.TEXT_NODE || !node.textContent
NoText(nd) ==
    \/ nd.nodeType # "TEXT_NODE"
    \/ nd.textContent = Null
    \/ nd.textContent[1] = <<>>

\* lines 26-44; the result is Null or <<[text, startPos]>>
getPinyinAtCursor(nd, cursorPos) ==
    IF NoText(nd) THEN Null
    ELSE LET textBefore == Substring(nd.textContent[1], 0, cursorPos)
             pinyinText == TrailingRun(textBefore)
         IN IF Len(pinyinText) >= 1
            THEN Some([text |-> pinyinText, startPos |-> cursorPos - Len(pinyinText)])
            ELSE Null

\* a splice that keeps the typed pinyin after the inserted hanzi
insertHanziKeepsPinyin(nd, cursorPos, pinyinStartPos, hanzi) ==
    IF NoText(nd) THEN [node |-> nd, ret |-> cursorPos]
    ELSE [node |-> [nd EXCEPT !.textContent =
                       Some(Substring(nd.textContent[1], 0, pinyinStartPos) \o hanzi
                            \o Substring(nd.textContent[1], pinyinStartPos,
                                         Len(nd.textContent[1]))),
                    !.edits = @ + 1],
          ret |-> pinyinStartPos + Len(hanzi)]

\* lines 49-67; the node as the call leaves it, and the returned offset
insertHanziAtCursor(nd, cursorPos, pinyinStartPos, hanzi) ==
    IF NoText(nd) THEN [node |-> nd, ret |-> cursorPos]
    ELSE LET textBefore == Substring(nd.textContent[1], 0, pinyinStartPos)
             textAfter == Substring(nd.textContent[1], cursorPos, Len(nd.textContent[1]))
         IN [node |-> [nd EXCEPT !.textContent = Some(textBefore \o hanzi \o textAfter),
                                 !.edits = @ + 1],
             ret |-> pinyinStartPos + Len(hanzi)]

(***************************************************************************)
(* Specification SpecNorm: calls of the two pinyin normalizers.            *)
(***************************************************************************)
\* l, u, v, u diaeresis (plain, macron, grave), U diaeresis grave, space
NormAlphabet == {108, 117, 118, 252, 470, 476, 475, 32}
Texts == UNION {[1..n -> NormAlphabet] : n \in 0..MaxTextLen}

NoNormCall == [fn |-> "none", arg |-> <<>>, ret |-> <<>>]

CallNormalizePinyin(text) ==
    /\ lastCall.fn = "none"
    /\ lastCall' = [fn |-> "normalizePinyin", arg |-> text, ret |-> normalizePinyin(text)]
    /\ UNCHANGED <<cache, loadingPromise, loads, callers, node>>

CallServiceNormalizePinyin(text) ==
    /\ lastCall.fn = "none"
    /\ lastCall' = [fn |-> "DictionaryService.normalizePinyin", arg |-> text,
                    ret |-> ServiceNormalizePinyin(text)]
    /\ UNCHANGED <<cache, loadingPromise, loads, callers, node>>

\* the caller takes the result
ReturnNorm ==
    /\ lastCall.fn # "none"
    /\ lastCall' = NoNormCall
    /\ UNCHANGED <<cache, loadingPromise, loads, callers, node>>

InitNorm ==
    /\ cache = Null
    /\ loadingPromise = 0
    /\ loads = <<>>
    /\ callers = [c \in Callers |-> IdleCaller]
    /\ node = NoNode
    /\ lastCall = NoNormCall

NextNorm ==
    \/ \E text \in Texts : CallNormalizePinyin(text)
    \/ \E text \in Texts : CallServiceNormalizePinyin(text)
    \/ ReturnNorm

SpecNorm == InitNorm /\ [][NextNorm]_vars

(***************************************************************************)
(* Specification SpecSearch: searches on a loaded table.                   *)
(***************************************************************************)
NoSearch == [fn |-> "none", query |-> <<>>, ret |-> <<>>]

\* the table a successful load installs, for every choice of the six payloads
LoadedTables ==
    {BuildDictionary([l \in Levels |-> LevelVariant(l, v[l])]) :
        v \in [Levels -> 1..NumVariants]}

CallSearchHanziByPinyin(query) ==
    /\ lastCall.fn = "none"
    /\ lastCall' = [fn |-> "searchHanziByPinyin", query |-> query,
                    ret |-> searchHanziByPinyin(cache[1], query)]
    /\ UNCHANGED <<cache, loadingPromise, loads, callers, node>>

CallSearchDictionary(query) ==
    /\ lastCall.fn = "none"
    /\ lastCall' = [fn |-> "searchDictionary", query |-> query,
                    ret |-> searchDictionary(cache[1], query)]
    /\ UNCHANGED <<cache, loadingPromise, loads, callers, node>>

\* the caller takes the result
ReturnSearch ==
    /\ lastCall.fn # "none"
    /\ lastCall' = NoSearch
    /\ UNCHANGED <<cache, loadingPromise, loads, callers, node>>

InitSearch ==
    /\ cache \in {Some(t) : t \in LoadedTables}
    /\ loadingPromise = 1
    /\ loads = <<[stage |-> "loaded", fetch |-> PendingFetches]>>
    /\ callers = [c \in Callers |-> IdleCaller]
    /\ node = NoNode
    /\ lastCall = NoSearch

NextSearch ==
    \/ \E query \in HanziQueries : CallSearchHanziByPinyin(query)
    \/ \E query \in DictQueries : CallSearchDictionary(query)
    \/ ReturnSearch

SpecSearch == InitSearch /\ [][NextSearch]_vars

(***************************************************************************)
(* Specification SpecEditor: the cursor helpers on one node.               *)
(***************************************************************************)
\* n, u diaeresis, space, U+4F60
BufAlphabet == {110, 252, 32, 20320}

SampleTexts ==
    { <<110, 105, 104, 97, 111>>,                \* "nihao"
      <<110, 105, 32, 104, 97, 111>>,            \* "ni hao"
      <<119, 111, 104, 97, 111, 120, 120>> }     \* "wohaoxx"

BufTexts == SampleTexts \cup UNION {[1..n -> BufAlphabet] : n \in 0..MaxBufLen}

Nodes ==
    {[nodeType |-> "TEXT_NODE", textContent |-> Some(t), edits |-> 0] : t \in BufTexts}
    \cup {[nodeType |-> "ELEMENT_NODE", textContent |-> Some(t), edits |-> 0] :
             t \in SampleTexts}
    \cup {NoNode}

HanziChoices == { <<20320, 22909>> }

TextLen(nd) == IF nd.textContent = Null THEN 0 ELSE Len(nd.textContent[1])
Offsets(nd) == (-1)..(TextLen(nd) + 1)

NoEditorCall ==
    [fn |-> "none", before |-> NoNode, cursorPos |-> 0, pinyinStartPos |-> 0,
     hanzi |-> <<>>, ret |-> 0, match |-> Null]

CallGetPinyinAtCursor(cursorPos) ==
    /\ lastCall.fn = "none"
    /\ lastCall' = [fn |-> "getPinyinAtCursor", before |-> node, cursorPos |-> cursorPos,
                    pinyinStartPos |-> 0, hanzi |-> <<>>, ret |-> 0,
                    match |-> getPinyinAtCursor(node, cursorPos)]
    /\ UNCHANGED <<cache, loadingPromise, loads, callers, node>>

CallInsertHanziAtCursor(cursorPos, pinyinStartPos, hanzi) ==
    /\ lastCall.fn = "none"
    /\ node.edits < MaxEdits
    /\ LET r == insertHanziAtCursor(node, cursorPos, pinyinStartPos, hanzi)
       IN /\ node' = r.node
          /\ lastCall' = [fn |-> "insertHanziAtCursor", before |-> node,
                          cursorPos |-> cursorPos, pinyinStartPos |-> pinyinStartPos,
                          hanzi |-> hanzi, ret |-> r.ret, match |-> Null]
    /\ UNCHANGED <<cache, loadingPromise, loads, callers>>

\* the caller takes the result
ReturnEditor ==
    /\ lastCall.fn # "none"
    /\ lastCall' = NoEditorCall
    /\ UNCHANGED <<cache, loadingPromise, loads, callers, node>>

InitEditor ==
    /\ cache = Null
    /\ loadingPromise = 0
    /\ loads = <<>>
    /\ callers = [c \in Callers |-> IdleCaller]
    /\ node \in Nodes
    /\ lastCall = NoEditorCall

NextEditor ==
    \/ \E cursorPos \in Offsets(node) : CallGetPinyinAtCursor(cursorPos)
    \/ \E cursorPos \in Offsets(node), pinyinStartPos \in Offsets(node) :
          \E hanzi \in HanziChoices :
              CallInsertHanziAtCursor(cursorPos, pinyinStartPos, hanzi)
    \/ ReturnEditor

SpecEditor == InitEditor /\ [][NextEditor]_vars

(***************************************************************************)
(* Properties of the loader (specification Spec).                          *)
(***************************************************************************)
Unsettled == {k \in 1..Len(loads) : ~Settled(k)}

\* C1: single-flight load.  At most one load is in flight at any time; while
\* the first load has not settled no second set of fetches has been started,
\* it consists of the six level fetches, every search call issued so far is
\* awaiting that one load, and no call has resumed from a load that has not
\* settled.
C1_SingleFlight ==
    /\ Cardinality(Unsettled) <= 1
    /\ (Len(loads) >= 1 /\ ~Settled(1)) =>
          /\ Len(loads) = 1
          /\ DOMAIN loads[1].fetch = Levels
          /\ \A c \in Callers :
                callers[c].pc # "idle" =>
                    callers[c].pc = "awaiting" /\ callers[c].awaiting = 1
    /\ \A c \in Callers :
          (callers[c].pc = "done" /\ callers[c].awaiting # 0) =>
              Settled(callers[c].awaiting)

\* C1 witness: every caller is awaiting the first load, which is in flight.
C1_Witness ==
    /\ NumCallers >= 2
    /\ Len(loads) = 1
    /\ loads[1].stage = "fetching"
    /\ \A c \in Callers : callers[c].pc = "awaiting" /\ callers[c].awaiting = 1

LastLoadFailed == Len(loads) >= 1 /\ loads[Len(loads)].stage = "failed"

\* C2: no permanent poisoning.  After a failed load (and until another one is
\* started) the table is absent and loadingPromise is null; a caller that
\* awaited a failed load got the empty result; the next search call starts a
\* fresh set of fetches; and a load whose six fetches brought well-formed
\* data installs the table built from them.
C2_NoPoisoning ==
    /\ [](LastLoadFailed => cache = Null /\ loadingPromise = 0)
    /\ [](\A c \in Callers :
            (callers[c].pc = "done" /\ callers[c].awaiting # 0
               /\ loads[callers[c].awaiting].stage = "failed")
            => callers[c].result = <<>>)
    /\ [][(LastLoadFailed
            /\ \E c \in Callers : callers[c].pc # "awaiting" /\ callers'[c].pc = "awaiting")
          => (/\ Len(loads') = Len(loads) + 1
              /\ loads'[Len(loads')].stage = "fetching"
              /\ loadingPromise' = Len(loads')
              /\ \A l \in Levels : loads'[Len(loads')].fetch[l].st = "pending")]_vars
    /\ [][\A k \in 1..Len(loads) :
            (/\ loads[k].stage = "fulfilled"
             /\ \A l \in Levels : loads[k].fetch[l].body.wellFormed
             /\ loads'[k].stage # "fulfilled")
            => (/\ loads'[k].stage = "loaded"
                /\ cache' = Some(BuildDictionary(
                                [l \in Levels |-> loads[k].fetch[l].body.entries])))]_vars

\* C2 witness: the first load failed, a caller that awaited it returned the
\* empty result, and the retry installed the table.
C2_Witness ==
    /\ Len(loads) = 2
    /\ loads[1].stage = "failed"
    /\ loads[2].stage = "loaded"
    /\ cache # Null
    /\ \E c \in Callers :
          callers[c].pc = "done" /\ callers[c].awaiting = 1 /\ callers[c].result = <<>>

\* C3: once the table is installed it stays as it is, and no later step starts
\* another set of fetches.
C3_LoadedIsStable ==
    [][cache # Null => (cache' = cache /\ Len(loads') = Len(loads))]_vars

\* C3 witness: with the table installed, a later search call went through
\* loadData without a fetch and returned results from the table.
C3_Witness ==
    /\ cache # Null
    /\ Len(loads) = 1
    /\ \E c \in Callers :
          callers[c].pc = "done" /\ callers[c].awaiting = 0 /\ callers[c].result # <<>>

(***************************************************************************)
(* Properties of the normalizers (specification SpecNorm).                 *)
(***************************************************************************)
\* C4: normalizePinyin (either copy) maps u-diaeresis and its toned variants
\* to "v": "l" + U+01DC and "lv" both normalize to "lv", and so does "l"
\* followed by any other form of u-diaeresis.
C4_UmlautBecomesV ==
    (/\ lastCall.fn \in {"normalizePinyin", "DictionaryService.normalizePinyin"}
     /\ Len(lastCall.arg) = 2
     /\ lastCall.arg[1] = 108
     /\ lastCall.arg[2] \in {118, 252, 470, 472, 474, 476})
    => lastCall.ret = <<108, 118>>

(***************************************************************************)
(* Properties of the searches (specification SpecSearch).                  *)
(***************************************************************************)
NiHaoPinyin == <<110, 464, 32, 104, 462, 111>>     \* "ni3 hao3" with tone marks
LowerAscii == 97..122

\* The bucket the rules of the suggestion search give an entry: exact (the
\* normalized pinyin is the normalized query, or one syllable is), else
\* partial (the pinyin or a syllable starts with it), else shorthand (a query
\* of two or more letters a-z that the syllables' first letters start with).
ExpectedBucket(pinyin, query) ==
    LET np == ServiceNormalizePinyin(pinyin)
        nq == ServiceNormalizePinyin(query)
        syl == Syllables(np)
        initials == [i \in 1..Len(syl) |-> Head(syl[i])]
    IN IF np = nq \/ \E i \in 1..Len(syl) : syl[i] = nq THEN "exact"
       ELSE IF \/ Len(nq) <= Len(np) /\ SubSeq(np, 1, Len(nq)) = nq
               \/ \E i \in 1..Len(syl) :
                     Len(nq) <= Len(syl[i]) /\ SubSeq(syl[i], 1, Len(nq)) = nq
            THEN "partial"
       ELSE IF /\ Len(nq) >= 2
               /\ \A i \in 1..Len(nq) : nq[i] \in LowerAscii
               /\ Len(nq) <= Len(initials)
               /\ SubSeq(initials, 1, Len(nq)) = nq
            THEN "shorthand"
       ELSE "none"

IsHanziSearch == lastCall.fn = "searchHanziByPinyin"

\* C5: with an entry whose pinyin is "ni3 hao3" in the table and fewer than 10
\* other exact matches, the query "nihao" returns that entry as an exact match.
C5_NihaoIsExact ==
    (IsHanziSearch /\ lastCall.query = <<110, 105, 104, 97, 111>>) =>
        \A i \in 1..Len(cache[1]) :
            (/\ cache[1][i].pinyin = NiHaoPinyin
             /\ Cardinality({k \in 1..Len(cache[1]) :
                    k # i /\ ExpectedBucket(cache[1][k].pinyin, lastCall.query) = "exact"}) < 10)
            => \E j \in 1..Len(lastCall.ret) :
                  /\ lastCall.ret[j].word = cache[1][i].word
                  /\ lastCall.ret[j].matchType = "exact"

\* Every result carries the first bucket whose condition its entry satisfies, no
\* word is returned twice, an entry that satisfies no condition is not
\* returned, and one that satisfies some is returned unless the 10 places are
\* taken.
OneBucketEach ==
    IsHanziSearch =>
        /\ \A j \in 1..Len(lastCall.ret) :
              /\ lastCall.ret[j].matchType
                    = ExpectedBucket(lastCall.ret[j].pinyin, lastCall.query)
              /\ lastCall.ret[j].matchType # "none"
              /\ \A k \in 1..Len(lastCall.ret) :
                    lastCall.ret[k].word = lastCall.ret[j].word => k = j
              /\ \E i \in 1..Len(cache[1]) :
                    /\ cache[1][i].word = lastCall.ret[j].word
                    /\ cache[1][i].pinyin = lastCall.ret[j].pinyin
        /\ \A i \in 1..Len(cache[1]) :
              (/\ ServiceNormalizePinyin(lastCall.query) # <<>>
               /\ ExpectedBucket(cache[1][i].pinyin, lastCall.query) # "none"
               /\ Len(lastCall.ret) < SuggestionLimit)
              => \E j \in 1..Len(lastCall.ret) : lastCall.ret[j].word = cache[1][i].word

ResultsFor(pinyin) ==
    {j \in 1..Len(lastCall.ret) : lastCall.ret[j].pinyin = pinyin}

\* C6 as stated: the query "ni" returns an entry with pinyin "ni3 hao3" as a
\* partial match, and every entry goes to the first bucket it qualifies for.
C6_NiIsPartial ==
    /\ (IsHanziSearch /\ lastCall.query = <<110, 105>>) =>
          \A j \in ResultsFor(NiHaoPinyin) : lastCall.ret[j].matchType = "partial"
    /\ OneBucketEach

\* C6 as amended: the query "ni" returns an entry with pinyin "ni3 hao3" as an
\* exact match (its syllable "ni" is the query), the query "n" returns it as a
\* partial match, and every entry goes to the first bucket it qualifies for.
C6_NiIsExact ==
    /\ (IsHanziSearch /\ lastCall.query = <<110, 105>>) =>
          \A j \in ResultsFor(NiHaoPinyin) : lastCall.ret[j].matchType = "exact"
    /\ (IsHanziSearch /\ lastCall.query = <<110>>) =>
          \A j \in ResultsFor(NiHaoPinyin) : lastCall.ret[j].matchType = "partial"
    /\ OneBucketEach

\* C6 witness: "ni" returned the "ni3 hao3" entry as exact, next to a partial
\* match.
C6_Witness ==
    /\ IsHanziSearch
    /\ lastCall.query = <<110, 105>>
    /\ \E j \in ResultsFor(NiHaoPinyin) : lastCall.ret[j].matchType = "exact"
    /\ \E j \in 1..Len(lastCall.ret) : lastCall.ret[j].matchType = "partial"

BucketRank(matchType) ==
    CASE matchType = "exact" -> 1
      [] matchType = "partial" -> 2
      [] OTHER -> 3

\* C7: in the returned sequence, at most 10 long, exact results precede partial
\* ones which precede shorthand ones, and within one matchType syllableCount
\* does not decrease.
C7_ResultOrder ==
    IsHanziSearch =>
        /\ Len(lastCall.ret) <= 10
        /\ \A i, j \in 1..Len(lastCall.ret) :
              i < j =>
                /\ BucketRank(lastCall.ret[i].matchType) <= BucketRank(lastCall.ret[j].matchType)
                /\ lastCall.ret[i].matchType = lastCall.ret[j].matchType
                      => lastCall.ret[i].syllableCount <= lastCall.ret[j].syllableCount

\* C7 witness: more than 10 entries matched, the 10 returned are of two
\* matchTypes and of different syllable counts within one of them.
C7_Witness ==
    /\ IsHanziSearch
    /\ Len(lastCall.ret) = 10
    /\ Cardinality({i \in 1..Len(cache[1]) :
           ExpectedBucket(cache[1][i].pinyin, lastCall.query) # "none"}) > 10
    /\ \E i, j \in 1..Len(lastCall.ret) :
          lastCall.ret[i].matchType # lastCall.ret[j].matchType
    /\ \E i, j \in 1..Len(lastCall.ret) :
          /\ i < j
          /\ lastCall.ret[i].matchType = lastCall.ret[j].matchType
          /\ lastCall.ret[i].syllableCount < lastCall.ret[j].syllableCount

\* C8: a query equal to the Hanzi key of an entry returns that entry first, with
\* score 1000.
C8_KeyScores1000First ==
    (/\ lastCall.fn = "searchDictionary"
     /\ \E i \in 1..Len(cache[1]) : cache[1][i].word = lastCall.query)
    => /\ Len(lastCall.ret) >= 1
       /\ lastCall.ret[1].word = lastCall.query
       /\ lastCall.ret[1].score = 1000

(***************************************************************************)
(* Properties of the cursor helpers (specification SpecEditor).            *)
(***************************************************************************)
PinyinLetters == (97..122) \cup (65..90) \cup {252, 220}

HasText(nd) ==
    /\ nd.nodeType = "TEXT_NODE"
    /\ nd.textContent # Null
    /\ nd.textContent[1] # <<>>

\* C9: on a text node with content and 0 <= pinyinStartPos <= cursorPos <=
\* length, insertHanziAtCursor leaves text[0..pinyinStartPos) + hanzi +
\* text[cursorPos..) and returns pinyinStartPos + length(hanzi); on any other
\* node it changes nothing and returns cursorPos.
C9_SpliceFrame ==
    lastCall.fn = "insertHanziAtCursor" =>
        IF HasText(lastCall.before)
        THEN LET old == lastCall.before.textContent[1]
             IN (/\ 0 <= lastCall.pinyinStartPos
                 /\ lastCall.pinyinStartPos <= lastCall.cursorPos
                 /\ lastCall.cursorPos <= Len(old))
                => /\ node.nodeType = lastCall.before.nodeType
                   /\ node.textContent =
                         Some(SubSeq(old, 1, lastCall.pinyinStartPos) \o lastCall.hanzi
                              \o SubSeq(old, lastCall.cursorPos + 1, Len(old)))
                   /\ lastCall.ret = lastCall.pinyinStartPos + Len(lastCall.hanzi)
        ELSE /\ node = lastCall.before
             /\ lastCall.ret = lastCall.cursorPos

\* C9 witness: "hao" of "wohaoxx" (offsets 2 to 5) replaced by two Hanzi.
C9_Witness ==
    /\ lastCall.fn = "insertHanziAtCursor"
    /\ lastCall.before.textContent = Some(<<119, 111, 104, 97, 111, 120, 120>>)
    /\ lastCall.pinyinStartPos = 2
    /\ lastCall.cursorPos = 5
    /\ node.textContent = Some(<<119, 111, 20320, 22909, 120, 120>>)
    /\ lastCall.ret = 4

\* What getPinyinAtCursor is to return for text and cursorPos: none when the
\* text before the cursor does not end in a pinyin letter, else the longest
\* run of pinyin letters ending at the cursor with the offset it starts at,
\* so that text[startPos..cursorPos) is the returned text.
PinyinAtCursorOk(text, cursorPos, match) ==
    LET before == SubSeq(text, 1, IF cursorPos < 0 THEN 0
                                  ELSE IF cursorPos > Len(text) THEN Len(text)
                                  ELSE cursorPos)
    IN IF match = Null
       THEN before = <<>> \/ before[Len(before)] \notin PinyinLetters
       ELSE /\ match[1].text # <<>>
            /\ \A i \in 1..Len(match[1].text) : match[1].text[i] \in PinyinLetters
            /\ match[1].startPos >= 0
            /\ Substring(text, match[1].startPos, cursorPos) = match[1].text
            /\ match[1].startPos = 0 \/ text[match[1].startPos] \notin PinyinLetters

PinyinAtCursorExamples ==
    /\ (/\ lastCall.before.textContent = Some(<<110, 105, 104, 97, 111>>)
        /\ lastCall.cursorPos = 5)
       => lastCall.match = Some([text |-> <<110, 105, 104, 97, 111>>, startPos |-> 0])
    /\ (/\ lastCall.before.textContent = Some(<<110, 105, 32, 104, 97, 111>>)
        /\ lastCall.cursorPos = 6)
       => lastCall.match = Some([text |-> <<104, 97, 111>>, startPos |-> 3])

\* C10 as stated: for a text node with content and every cursorPos.
C10_EveryCursorPos ==
    (lastCall.fn = "getPinyinAtCursor" /\ HasText(lastCall.before)) =>
        /\ PinyinAtCursorOk(lastCall.before.textContent[1], lastCall.cursorPos,
                            lastCall.match)
        /\ PinyinAtCursorExamples

\* C10 as amended: for a text node with content and every cursorPos that is
\* at most the length of the text.
C10_CursorInText ==
    (/\ lastCall.fn = "getPinyinAtCursor"
     /\ HasText(lastCall.before)
     /\ lastCall.cursorPos <= Len(lastCall.before.textContent[1])) =>
        /\ PinyinAtCursorOk(lastCall.before.textContent[1], lastCall.cursorPos,
                            lastCall.match)
        /\ PinyinAtCursorExamples

\* C10 witness: "ni hao" with the cursor at 6 gave "hao" from offset 3.
C10_Witness ==
    /\ lastCall.fn = "getPinyinAtCursor"
    /\ lastCall.before.textContent = Some(<<110, 105, 32, 104, 97, 111>>)
    /\ lastCall.cursorPos = 6
    /\ lastCall.match = Some([text |-> <<104, 97, 111>>, startPos |-> 3])

=============================================================================
